---- MODULE Spec2Model ----
(***************************************************************************)
(* demos/gce_demo.py: a sequential demo driver for the GCE compute, load   *)
(* balancer and DNS drivers.  The model has the module namespace as it is  *)
(* after the file is loaded, the helper functions display and clean_up,    *)
(* the three scenario bodies as instruction tables run one statement per   *)
(* step, and the script entry point.  The library drivers are external:    *)
(* every driver call may raise, destroy() may raise ResourceNotFoundError, *)
(* and the cloud is a list of named resources.                             *)
(***************************************************************************)
EXTENDS Integers, Sequences, FiniteSets, TLC

VARIABLES CLEANUP, MAX_NODES, WHICH_TESTS,
          invocation, mode, body, pc, locals, cu,
          store, calls, out, exc

config == <<CLEANUP, MAX_NODES, WHICH_TESTS>>
vars == <<CLEANUP, MAX_NODES, WHICH_TESTS, invocation, mode, body, pc,
          locals, cu, store, calls, out, exc>>

(***************************************************************************)
(* Bounds of the model.                                                    *)
(***************************************************************************)
\* largest value of MAX_NODES tried (the module sets 5; it is documented as
\* settable before a run)
MaxMaxNodes == 5
\* longest node_list / resource_list of a direct clean_up call
MaxNodeList == 2
MaxResList == 2
\* longest resource_list of a direct display call (beyond the slice of 10)
MaxDisplayLen == 11
\* largest value of MAX_NODES tried on the project whose every listing is
\* long, where the compute scenario runs to its end
MaxPackedNodes == 1

(***************************************************************************)
(* Names are sequences of characters; the suffix that a format string adds *)
(* to DEMO_BASE_NAME is kept as one token.                                 *)
(***************************************************************************)
DEMO_BASE_NAME == <<"l", "c", "t">>

\* '%s<suffix>' % DEMO_BASE_NAME
Fmt(suffix) == DEMO_BASE_NAME \o <<suffix>>

\* str.startswith
StartsWith(s, p) ==
    /\ Len(p) <= Len(s)
    /\ \A k \in 1..Len(p) : s[k] = p[k]

Res(kind, name) == [kind |-> kind, name |-> name]

NoExc == [type |-> "none", what |-> ""]
Exc(type, what) == [type |-> type, what |-> what]

RECURSIVE Concat(_)
Concat(ss) == IF ss = <<>> THEN <<>> ELSE Head(ss) \o Concat(Tail(ss))

SeqsUpTo(S, n) == UNION {[1..k -> S] : k \in 0..n}

(***************************************************************************)
(* The module namespace.  The def statements of the file in source order;  *)
(* a later def of a name rebinds it.                                       *)
(***************************************************************************)
ModuleDefs == <<
    [name |-> "get_gce_driver",     line |-> 97,  body |-> "helper"],
    [name |-> "get_gcelb_driver",   line |-> 101, body |-> "helper"],
    [name |-> "get_dns_driver",     line |-> 112, body |-> "helper"],
    [name |-> "display",            line |-> 123, body |-> "helper"],
    [name |-> "clean_up",           line |-> 146, body |-> "helper"],
    [name |-> "main_compute",       line |-> 193, body |-> "compute"],
    [name |-> "main_load_balancer", line |-> 405, body |-> "load_balancer"],
    [name |-> "main_compute",       line |-> 544, body |-> "dns"] >>

\* names bound by the import and assignment statements of the module
ModuleAssigned == {"os", "sys", "secrets", "Provider", "get_driver",
                   "ResourceNotFoundError", "Provider_lb", "get_driver_lb",
                   "Provider_dns", "get_driver_dns", "WHICH_TESTS",
                   "MAX_NODES", "DEMO_BASE_NAME", "DATACENTER", "CLEANUP",
                   "args", "kwargs"}

ModuleGlobals == ModuleAssigned \cup {ModuleDefs[i].name : i \in DOMAIN ModuleDefs}

\* the body a global name is bound to once the module is loaded
Resolve(name) ==
    LET idx == {i \in DOMAIN ModuleDefs : ModuleDefs[i].name = name}
    IN  IF idx = {} THEN "unbound"
        ELSE ModuleDefs[CHOOSE i \in idx : \A j \in idx : j <= i].body

\* a name is looked up in the function's locals, then in the module globals
IsBound(name, localNames) == name \in localNames \cup ModuleGlobals

(***************************************************************************)
(* display(title, resource_list=[], use_prefix=True)                       *)
(***************************************************************************)
DisplayLimit == 10

Title(fmt, arg) == [fmt |-> fmt, arg |-> arg]
Line(k, pre, fmt, arg) == [k |-> k, pre |-> pre, fmt |-> fmt, arg |-> arg]

\* the Python idiom  c and a or b  with strings a, b
AndOr(c, a, b) == IF c /\ a # "" THEN a ELSE b

DisplayLocals == {"title", "resource_list", "use_prefix", "item"}

\* the name read on line 141 to choose the prefix of a matching item
DisplayItemFlag == "use_preifx"

\* one pass of the loop body, lines 140-143
DisplayItem(item, use_prefix) ==
    IF StartsWith(item.name, DEMO_BASE_NAME)
    THEN IF IsBound(DisplayItemFlag, DisplayLocals)
         THEN [lines |-> <<Line("item", AndOr(use_prefix, "=> ", "  "),
                                 "%s   %s", <<item.name>>)>>,
               exc |-> NoExc]
         ELSE [lines |-> <<>>, exc |-> Exc("NameError", DisplayItemFlag)]
    ELSE [lines |-> <<Line("item", "", "        %s", <<item.name>>)>>,
          exc |-> NoExc]

RECURSIVE DisplayLoop(_, _)
DisplayLoop(items, use_prefix) ==
    IF items = <<>> THEN [lines |-> <<>>, exc |-> NoExc]
    ELSE LET r == DisplayItem(Head(items), use_prefix)
         IN  IF r.exc # NoExc THEN r
             ELSE LET rest == DisplayLoop(Tail(items), use_prefix)
                  IN  [lines |-> r.lines \o rest.lines, exc |-> rest.exc]

\* resource_list[:10]
Slice(s, n) == SubSeq(s, 1, IF Len(s) < n THEN Len(s) ELSE n)

\* the lines display prints and the exception it raises, if any
Display(title, resource_list, use_prefix) ==
    LET head == Line("title", AndOr(use_prefix, "=> ", ""), title.fmt, title.arg)
        loop == DisplayLoop(Slice(resource_list, DisplayLimit), use_prefix)
    IN  [lines |-> <<head>> \o loop.lines, exc |-> loop.exc]

(***************************************************************************)
(* Statements of the scenario bodies.  A statement is a driver call, a     *)
(* display or print, a call of clean_up, or a read of a module global.     *)
(*   cat      create / attach / update / detach / read, for driver calls   *)
(*   var      the local the result is assigned to, or the list displayed   *)
(*   kind     the kind of resource a list call returns                     *)
(*   args     the locals concatenated into clean_up's resource_list        *)
(*   creates  the resources a successful driver call adds to the cloud     *)
(*   title    what is displayed; for a driver call, what is reported when  *)
(*            its result is true (via display or print)                    *)
(***************************************************************************)
NoTitle == Title("", <<>>)

Instr(line, op, cat, var, kind, args, creates, title, pfx, via) ==
    [line |-> line, op |-> op, cat |-> cat, var |-> var, kind |-> kind,
     args |-> args, creates |-> creates, title |-> title, pfx |-> pfx,
     via |-> via]

\* var = driver.op(...)  returning the listed resources of a kind
IList(line, op, var, kind) ==
    Instr(line, op, "list", var, kind, <<>>, <<>>, NoTitle, FALSE, "")
\* a driver call that reads
IGet(line, op) ==
    Instr(line, op, "read", "", "", <<>>, <<>>, NoTitle, FALSE, "")
\* a driver call that creates, attaches, updates or detaches
ICall(line, op, cat, var, creates) ==
    Instr(line, op, cat, var, "", <<>>, creates, NoTitle, FALSE, "")
\* if driver.op(...): display(title)   /   if ...: print(title)
ICallSays(line, op, cat, title, via) ==
    Instr(line, op, cat, "", "", <<>>, <<>>, title, TRUE, via)
\* display(title, var, use_prefix); var = "" is the default resource_list
IDisp(line, title, var, pfx) ==
    Instr(line, "display", "", var, "", <<>>, <<>>, title, pfx, "display")
IPrint(line, title) ==
    Instr(line, "print", "", "", "", <<>>, <<>>, title, FALSE, "print")
\* for member in var: print(...)
IPrintEach(line, title, var) ==
    Instr(line, "print_each", "", var, "", <<>>, <<>>, title, FALSE, "print")
\* clean_up(gce, DEMO_BASE_NAME, nodevar, a + b + ...); nodevar = "" is None
IClean(line, nodevar, resvars) ==
    Instr(line, "clean_up", "", nodevar, "", resvars, <<>>, NoTitle, FALSE, "")
\* a statement that reads the module global var
IRef(line, name) ==
    Instr(line, "ref", "", name, "", <<>>, <<>>, NoTitle, FALSE, "")

\* the names ex_create_multiple_nodes gives to its nodes
MultiNames(base, number) ==
    [i \in 1..number |-> base \o <<"-", ToString(i - 1)>>]
MultiNodes(base, number) ==
    [i \in 1..number |-> Res("Node", MultiNames(base, number)[i])]

(***************************************************************************)
(* def main_compute(), lines 193-401                                       *)
(***************************************************************************)
ComputeListing == <<
    IGet(194, "get_gce_driver"),
    IGet(196, "ex_get_project"),
    IDisp(197, Title("=> Project: %s", <<<<"project">>>>), "", TRUE),
    IList(202, "list_nodes", "all_nodes", "Node"),
    IDisp(203, Title("Nodes", <<>>), "all_nodes", FALSE),
    IList(205, "ex_list_addresses", "all_addresses", "Address"),
    IDisp(206, Title("Addresses", <<>>), "all_addresses", FALSE),
    IList(208, "list_volumes", "all_volumes", "Volume"),
    IDisp(209, Title("Volumes", <<>>), "all_volumes", FALSE),
    IList(213, "list_sizes", "sizes", "Size"),
    IDisp(214, Title("Sizes", <<>>), "sizes", FALSE),
    IList(217, "ex_list_firewalls", "firewalls", "Firewall"),
    IDisp(218, Title("Firewalls", <<>>), "firewalls", FALSE),
    IList(220, "ex_list_networks", "networks", "Network"),
    IDisp(221, Title("Networks", <<>>), "networks", FALSE),
    IList(223, "list_images", "images", "Image"),
    IDisp(224, Title("Images", <<>>), "images", FALSE),
    IList(226, "list_locations", "locations", "Location"),
    IDisp(227, Title("Locations", <<>>), "locations", FALSE),
    IList(229, "ex_list_zones", "zones", "Zone"),
    IDisp(230, Title("Zones", <<>>), "zones", FALSE),
    IList(232, "ex_list_snapshots", "snapshots", "Snapshot"),
    IDisp(233, Title("Snapshots", <<>>), "snapshots", FALSE) >>

ComputeInitialCleanup == <<
    IDisp(236, Title("Cleaning up any \"%s\" resources:", <<DEMO_BASE_NAME>>), "", TRUE),
    IClean(237, "all_nodes", <<"all_addresses", "all_volumes", "firewalls",
                               "networks", "snapshots">>) >>

\* if MAX_NODES > 1:  lines 241-296
ComputeDiskNodes(max_nodes, cleanup) ==
    IF max_nodes > 1
    THEN <<
        IDisp(242, Title("Creating a node with multiple disks using GCE structure:", <<>>), "", TRUE),
        ICall(268, "create_node", "create", "", <<Res("Node", Fmt("-gstruct"))>>),
        IDisp(272, Title("       Node %s created with %d disks", <<Fmt("-gstruct")>>), "", TRUE),
        IDisp(275, Title("Creating Node with auto-created SSD:", <<>>), "", TRUE),
        ICall(277, "create_node", "create", "", <<Res("Node", Fmt("-np-node"))>>),
        IDisp(280, Title("      Node %s created", <<Fmt("-np-node")>>), "", TRUE),
        IDisp(283, Title("Creating a new disk:", <<>>), "", TRUE),
        ICall(285, "create_volume", "create", "", <<Res("Volume", Fmt("-attach-disk"))>>),
        ICallSays(286, "attach", "attach",
                  Title("     Attached %s to %s", <<Fmt("-attach-disk"), Fmt("-np-node")>>), "display"),
        IDisp(288, Title("      Disabled auto-delete for %s on %s",
                         <<Fmt("-attach-disk"), Fmt("-np-node")>>), "", TRUE),
        ICall(290, "ex_set_volume_auto_delete", "update", "", <<>>) >>
      \o (IF cleanup
          THEN <<ICallSays(294, "detach_volume", "detach",
                           Title("      Detached %s from %s",
                                 <<Fmt("-attach-disk"), Fmt("-np-node")>>), "display")>>
          ELSE <<>>)
    ELSE <<>>

ComputeSnapshotAndNode == <<
    IDisp(299, Title("Creating a snapshot from existing disk:", <<>>), "", TRUE),
    IGet(302, "ex_get_image"),
    ICall(303, "create_volume", "create", "", <<Res("Volume", Fmt("-snap-template"))>>),
    IDisp(304, Title("Created disk %s to shapshot", <<DEMO_BASE_NAME>>), "", TRUE),
    ICall(306, "snapshot", "create", "", <<Res("Snapshot", Fmt("-snapshot"))>>),
    IDisp(307, Title("      Snapshot %s created", <<Fmt("-snapshot")>>), "", TRUE),
    IDisp(310, Title("Creating Node with existing disk:", <<>>), "", TRUE),
    IGet(314, "ex_get_image"),
    IGet(316, "ex_get_size"),
    ICall(319, "create_volume", "create", "", <<Res("Volume", Fmt("-boot-disk"))>>),
    IDisp(320, Title("      Created %s from snapshot", <<Fmt("-boot-disk")>>), "", TRUE),
    ICall(322, "create_node", "create", "", <<Res("Node", Fmt("-persist-node"))>>),
    IDisp(325, Title("      Node %s created with attached disk %s",
                     <<Fmt("-persist-node"), Fmt("-boot-disk")>>), "", TRUE),
    IDisp(329, Title("Updating Tags for %s", <<Fmt("-persist-node")>>), "", TRUE),
    ICallSays(332, "ex_set_node_tags", "update",
              Title("      Tags updated for %s", <<Fmt("-persist-node")>>), "display"),
    IGet(334, "ex_get_node"),
    IDisp(335, Title("      New tags: %s", <<>>), "", TRUE),
    IDisp(338, Title("Setting Metadata for %s", <<Fmt("-persist-node")>>), "", TRUE),
    ICallSays(339, "ex_set_node_metadata", "update",
              Title("      Metadata updated for %s", <<Fmt("-persist-node")>>), "display"),
    IGet(341, "ex_get_node"),
    IDisp(342, Title("      New Metadata: %s", <<>>), "", TRUE) >>

\* number = MAX_NODES - 2; if number > 0:  lines 345-354
ComputeMultipleNodes(max_nodes) ==
    LET number == max_nodes - 2
    IN  IF number > 0
        THEN <<
            IDisp(348, Title("Creating Multiple Nodes (%s):", <<>>), "", TRUE),
            ICall(349, "ex_create_multiple_nodes", "create", "",
                  MultiNodes(Fmt("-multiple-nodes"), number)) >>
          \o [i \in 1..number |->
                IDisp(354, Title("      Node %s created.",
                                 <<MultiNames(Fmt("-multiple-nodes"), number)[i]>>), "", TRUE)]
        ELSE <<>>

ComputeNetworking == <<
    IDisp(357, Title("Creating Network:", <<>>), "", TRUE),
    ICall(360, "ex_create_network", "create", "", <<Res("Network", Fmt("-network"))>>),
    IDisp(361, Title("      Network %s created", <<Fmt("-network")>>), "", TRUE),
    IDisp(364, Title("Creating a Firewall:", <<>>), "", TRUE),
    ICall(368, "ex_create_firewall", "create", "", <<Res("Firewall", Fmt("-firewall"))>>),
    IDisp(370, Title("      Firewall %s created", <<Fmt("-firewall")>>), "", TRUE),
    IDisp(373, Title("Creating an Address:", <<>>), "", TRUE),
    ICall(375, "ex_create_address", "create", "", <<Res("Address", Fmt("-address"))>>),
    IDisp(376, Title("      Address %s created with IP %s", <<Fmt("-address")>>), "", TRUE) >>

ComputeUpdatedListing == <<
    IDisp(380, Title("Updated Resources in current zone/region:", <<>>), "", TRUE),
    IList(381, "list_nodes", "nodes", "Node"),
    IDisp(382, Title("Nodes", <<>>), "nodes", TRUE),
    IList(384, "ex_list_addresses", "addresses", "Address"),
    IDisp(385, Title("Addresses", <<>>), "addresses", TRUE),
    IList(387, "ex_list_firewalls", "firewalls", "Firewall"),
    IDisp(388, Title("Firewalls", <<>>), "firewalls", TRUE),
    IList(390, "ex_list_networks", "networks", "Network"),
    IDisp(391, Title("Networks", <<>>), "networks", TRUE),
    IList(393, "ex_list_snapshots", "snapshots", "Snapshot"),
    IDisp(394, Title("Snapshots", <<>>), "snapshots", TRUE) >>

\* ComputeFinalCleanup with the volumes cleaned in the one call, first
ComputeFinalCleanupVolumesFirst(cleanup) ==
    IF cleanup
    THEN <<
        IDisp(397, Title("Cleaning up %s resources created.", <<DEMO_BASE_NAME>>), "", TRUE),
        IList(400, "list_volumes", "volumes", "Volume"),
        IClean(398, "nodes", <<"volumes", "addresses", "firewalls", "networks", "snapshots">>) >>
    ELSE <<>>

\* if CLEANUP:  lines 396-401
ComputeFinalCleanup(cleanup) ==
    IF cleanup
    THEN <<
        IDisp(397, Title("Cleaning up %s resources created.", <<DEMO_BASE_NAME>>), "", TRUE),
        IClean(398, "nodes", <<"addresses", "firewalls", "networks", "snapshots">>),
        IList(400, "list_volumes", "volumes", "Volume"),
        IClean(401, "", <<"volumes">>) >>
    ELSE <<>>

ComputeBody(max_nodes, cleanup) ==
    ComputeListing \o ComputeInitialCleanup
      \o ComputeDiskNodes(max_nodes, cleanup)
      \o ComputeSnapshotAndNode
      \o ComputeMultipleNodes(max_nodes)
      \o ComputeNetworking
      \o ComputeUpdatedListing
      \o ComputeFinalCleanup(cleanup)

(***************************************************************************)
(* def main_load_balancer(), lines 405-540                                 *)
(***************************************************************************)
WwwNodes == MultiNodes(Fmt("-www"), 3)
\* the balancer member that stands for a node
MemberOf(node) == Res("Member", node.name)

LoadBalancerListing == <<
    IGet(406, "get_gce_driver"),
    IGet(407, "get_gcelb_driver"),
    IList(410, "list_balancers", "balancers", "Balancer"),
    IDisp(411, Title("Load Balancers", <<>>), "balancers", FALSE),
    IList(414, "list_protocols", "protocols", "Protocol"),
    IDisp(415, Title("Protocols:", <<>>), "protocols", FALSE),
    IList(418, "ex_list_healthchecks", "healthchecks", "HealthCheck"),
    IDisp(419, Title("Health Checks", <<>>), "healthchecks", FALSE) >>

LoadBalancerInitialCleanup == <<
    IList(425, "list_nodes", "all_nodes", "Node"),
    IList(426, "ex_list_firewalls", "firewalls", "Firewall"),
    IPrint(427, Title("=> Cleaning up any \"%s\" resources:", <<DEMO_BASE_NAME>>)),
    IClean(428, "all_nodes", <<"balancers", "healthchecks", "firewalls">>) >>

LoadBalancerCreate == <<
    IGet(437, "ex_get_image"),
    IGet(438, "ex_get_size"),
    ICall(442, "ex_create_multiple_nodes", "create", "lb_nodes", WwwNodes),
    IDisp(446, Title("Created Nodes", <<>>), "lb_nodes", TRUE),
    IPrint(449, Title("=> Creating a Firewall:", <<>>)),
    ICall(453, "ex_create_firewall", "create", "", <<Res("Firewall", Fmt("-firewall"))>>),
    IPrint(454, Title("=>    Firewall %s created", <<Fmt("-firewall")>>)),
    IPrint(457, Title("=> Creating a HealthCheck:", <<>>)),
    ICall(462, "ex_create_healthcheck", "create", "",
          <<Res("HealthCheck", Fmt("-healthcheck"))>>),
    IPrint(466, Title("=>    Healthcheck %s created", <<Fmt("-healthcheck")>>)),
    IPrint(469, Title("=> Creating Load Balancer", <<>>)),
    \* members = lb_nodes[:2]
    ICall(476, "create_balancer", "create", "",
          <<Res("Balancer", Fmt("-lb")), MemberOf(WwwNodes[1]), MemberOf(WwwNodes[2])>>),
    IPrint(478, Title("=>    Load Balancer %s created", <<Fmt("-lb")>>)) >>

LoadBalancerMembers == <<
    IPrint(481, Title("=> Attaching additional node to Load Balancer:", <<>>)),
    \* balancer.attach_compute_node(lb_nodes[2])
    ICall(482, "attach_compute_node", "attach", "", <<MemberOf(WwwNodes[3])>>),
    IPrint(483, Title("=>    Attached %s to %s", <<WwwNodes[3].name, Fmt("-lb")>>)),
    IList(486, "list_members", "members", "Member"),
    IPrint(487, Title("=> Load Balancer Members:", <<>>)),
    IPrintEach(489, Title("=>    ID: %s IP: %s", <<>>), "members"),
    IPrint(492, Title("=> Removing a Member:", <<>>)),
    \* detached = members[0]; detach = balancer.detach_member(detached)
    ICallSays(494, "detach_member", "detach",
              Title("=>    Member %s detached from %s", <<Fmt("-lb")>>), "print"),
    IList(499, "list_members", "members", "Member"),
    IPrint(500, Title("=> Updated Load Balancer Members:", <<>>)),
    IPrintEach(502, Title("=>    ID: %s IP: %s", <<>>), "members"),
    IPrint(505, Title("=> Reattaching Member:", <<>>)),
    ICall(506, "attach_member", "attach", "", <<>>),
    IPrint(507, Title("=>    Member %s attached to %s", <<Fmt("-lb")>>)) >>

LoadBalancerConnect == <<
    IPrint(510, Title("=> Sleeping for 10 seconds to stabilize the balancer...", <<>>)),
    IRef(511, "time"),
    IPrint(515, Title("=> Connecting to %s %s times:", <<>>)),
    IRef(517, "url_req"),
    IRef(518, "PY3"),
    IPrint(530, Title("", <<>>)) >>

\* if CLEANUP:  lines 532-540
LoadBalancerFinalCleanup(cleanup) ==
    IF cleanup
    THEN <<
        IList(533, "list_balancers", "balancers", "Balancer"),
        IList(534, "ex_list_healthchecks", "healthchecks", "HealthCheck"),
        IList(535, "list_nodes", "nodes", "Node"),
        IList(536, "ex_list_firewalls", "firewalls", "Firewall"),
        IPrint(538, Title("=> Cleaning up %s resources created.", <<DEMO_BASE_NAME>>)),
        IClean(539, "nodes", <<"balancers", "healthchecks", "firewalls">>) >>
    ELSE <<>>

LoadBalancerBody(cleanup) ==
    LoadBalancerListing \o LoadBalancerInitialCleanup \o LoadBalancerCreate
      \o LoadBalancerMembers \o LoadBalancerConnect
      \o LoadBalancerFinalCleanup(cleanup)

(***************************************************************************)
(* the second def main_compute(), lines 544-548 (Google DNS)               *)
(***************************************************************************)
DnsBody == <<
    IGet(545, "get_dns_driver"),
    IGet(547, "ex_get_project"),
    IPrint(548, Title("=> Project: %s", <<<<"project">>>>)) >>

BodyOf(b, max_nodes, cleanup) ==
    CASE b = "compute" -> ComputeBody(max_nodes, cleanup)
      [] b = "load_balancer" -> LoadBalancerBody(cleanup)
      [] b = "dns" -> DnsBody
      [] OTHER -> <<>>

\* the body defined by the def statement on a line
BodyAtLine(line) ==
    LET idx == {i \in DOMAIN ModuleDefs : ModuleDefs[i].line = line}
    IN  ModuleDefs[CHOOSE i \in idx : TRUE].body

(***************************************************************************)
(* State.                                                                  *)
(*   invocation  what is run: the script, a function looked up by name, a  *)
(*               function object made by one def statement, or a direct    *)
(*               call of clean_up or display                               *)
(*   mode        idle, run (in a scenario body), clean_up, done, raised    *)
(*   body, pc    the scenario body running and its next statement          *)
(*   locals      the list-valued locals of the scenario                    *)
(*   cu          the frame of clean_up                                     *)
(*   store       the resources in the cloud, in listing order              *)
(*   calls       the driver calls made so far                              *)
(*   out         the lines written to standard output                      *)
(*   exc         the exception that ended the run                          *)
(***************************************************************************)
Groups == {"compute", "load-balancer", "dns"}

VarNames == {"all_nodes", "all_addresses", "all_volumes", "sizes",
             "firewalls", "networks", "images", "locations", "zones",
             "snapshots", "nodes", "addresses", "volumes", "balancers",
             "protocols", "healthchecks", "lb_nodes", "members", "detached"}
NoLocals == [v \in VarNames |-> <<>>]

\* an optional list argument: None or a list
None == [none |-> TRUE, v |-> <<>>]
Some(v) == [none |-> FALSE, v |-> v]
\* if x is None: x = []      (lines 160-163)
OrEmpty(x) == IF x.none THEN <<>> ELSE x.v

CuIdle == [base |-> <<>>, node_list |-> <<>>, resource_list |-> <<>>,
           phase |-> "idle", i |-> 0]
CuFrame(base_name, node_list, resource_list) ==
    [base |-> base_name, node_list |-> OrEmpty(node_list),
     resource_list |-> OrEmpty(resource_list), phase |-> "nodes", i |-> 1]

Invocation(kind, name, line, base, node_list, resource_list, use_prefix) ==
    [kind |-> kind, name |-> name, line |-> line, base |-> base,
     node_list |-> node_list, resource_list |-> resource_list,
     use_prefix |-> use_prefix]

CallRec(line, op, cat, names, result) ==
    [line |-> line, op |-> op, cat |-> cat, names |-> names, result |-> result]

NamesOf(rs) == [i \in DOMAIN rs |-> rs[i].name]
Range(s) == {s[i] : i \in DOMAIN s}

\* the driver's list calls: the resources of a kind, in listing order
DriverList(st, kind) == SelectSeq(st, LAMBDA r : r.kind = kind)
\* the cloud without the resources in gone
Remove(st, gone) == SelectSeq(st, LAMBDA r : r \notin gone)

(***************************************************************************)
(* Control.  No scenario body has a try statement: an exception raised in  *)
(* a body, or raised out of clean_up or display, leaves the run.           *)
(***************************************************************************)
\* Propagate with create_node tried again when it fails
PropagateRetry(e) ==
    IF e = Exc("DriverError", "create_node")
    THEN [mode |-> "run", exc |-> NoExc]
    ELSE [mode |-> "raised", exc |-> e]

Propagate(e) == [mode |-> "raised", exc |-> e]

Leave(e) ==
    /\ mode' = Propagate(e).mode
    /\ exc' = Propagate(e).exc

Program == BodyOf(body, MAX_NODES, CLEANUP)

(***************************************************************************)
(* clean_up(gce, base_name, node_list=None, resource_list=None)            *)
(***************************************************************************)
\* Selected testing that base_name occurs anywhere in the name
SelectedAnywhere(resource, base_name) ==
    \E k \in 0..Len(resource.name) :
        StartsWith(SubSeq(resource.name, k + 1, Len(resource.name)), base_name)

\* the test of lines 167 and 179
Selected(resource, base_name) == StartsWith(resource.name, base_name)

\* DestroyHandler without the except ResourceNotFoundError clause
DestroyHandlerNoNotFound(type) ==
    [fmt |-> "   Failed to Delete %s(%s)", reraise |-> TRUE]

\* DestroyHandler without the raise statement of line 189
DestroyHandlerNoRaise(type) ==
    IF type = "ResourceNotFoundError"
    THEN [fmt |-> "   Not found: %s(%s)", reraise |-> FALSE]
    ELSE [fmt |-> "   Failed to Delete %s(%s)", reraise |-> FALSE]

\* the except clauses of lines 182-189
DestroyHandler(type) ==
    IF type = "ResourceNotFoundError"
    THEN [fmt |-> "   Not found: %s(%s)", reraise |-> FALSE]
    ELSE [fmt |-> "   Failed to Delete %s(%s)", reraise |-> TRUE]

\* lines 164-175: collect the matching nodes, destroy them in one call and
\* report each result
CleanUpNodes ==
    /\ mode = "clean_up" /\ cu.phase = "nodes"
    /\ LET del_nodes == SelectSeq(cu.node_list, LAMBDA n : Selected(n, cu.base))
       IN  \/ /\ calls' = Append(calls, CallRec(170, "ex_destroy_multiple_nodes",
                                  "destroy", NamesOf(del_nodes), "raise"))
              /\ Leave(Exc("DriverError", "ex_destroy_multiple_nodes"))
              /\ UNCHANGED <<cu, store, out>>
           \/ \E result \in [DOMAIN del_nodes -> BOOLEAN] :
                LET gone == {del_nodes[i] : i \in {j \in DOMAIN del_nodes : result[j]}}
                    said == [i \in DOMAIN del_nodes |->
                               Display(Title(IF result[i] THEN "   Deleted %s"
                                             ELSE "   Failed to delete %s",
                                             <<del_nodes[i].name>>), <<>>, TRUE)]
                IN  /\ calls' = Append(calls, CallRec(170, "ex_destroy_multiple_nodes",
                                        "destroy", NamesOf(del_nodes), "ok"))
                    /\ store' = Remove(store, gone)
                    /\ out' = out \o Concat([i \in DOMAIN said |-> said[i].lines])
                    /\ cu' = [cu EXCEPT !.phase = "resources", !.i = 1]
                    /\ UNCHANGED <<mode, exc>>
    /\ UNCHANGED <<config, invocation, body, pc, locals>>

\* lines 178-189: one pass of the loop over resource_list
CleanUpResource ==
    /\ mode = "clean_up" /\ cu.phase = "resources"
    /\ cu.i \in DOMAIN cu.resource_list
    /\ LET resource == cu.resource_list[cu.i]
       IN  IF Selected(resource, cu.base)
           THEN \E outcome \in {"ok", "ResourceNotFoundError", "DriverError"} :
                  /\ calls' = Append(calls, CallRec(181, "destroy", "destroy",
                                      <<resource.name>>, outcome))
                  /\ IF outcome = "ok"
                     THEN /\ store' = Remove(store, {resource})
                          /\ cu' = [cu EXCEPT !.i = cu.i + 1]
                          /\ UNCHANGED <<out, mode, exc>>
                     ELSE LET h == DestroyHandler(outcome)
                              said == Display(Title(h.fmt, <<resource.name, <<resource.kind>>>>),
                                              <<>>, TRUE)
                          IN  /\ out' = out \o said.lines
                              /\ UNCHANGED store
                              /\ IF h.reraise
                                 THEN /\ Leave(Exc(outcome, "destroy"))
                                      /\ UNCHANGED cu
                                 ELSE /\ cu' = [cu EXCEPT !.i = cu.i + 1]
                                      /\ UNCHANGED <<mode, exc>>
           ELSE /\ cu' = [cu EXCEPT !.i = cu.i + 1]
                /\ UNCHANGED <<calls, store, out, mode, exc>>
    /\ UNCHANGED <<config, invocation, body, pc, locals>>

\* the loop is over: clean_up returns to its caller
CleanUpReturn ==
    /\ mode = "clean_up" /\ cu.phase = "resources"
    /\ cu.i = Len(cu.resource_list) + 1
    /\ cu' = [cu EXCEPT !.phase = "returned"]
    /\ IF body = "none"
       THEN mode' = "done" /\ pc' = pc
       ELSE mode' = "run" /\ pc' = pc + 1
    /\ UNCHANGED <<config, invocation, body, locals, store, calls, out, exc>>

(***************************************************************************)
(* One statement of the scenario body per step.                            *)
(***************************************************************************)
Running == mode = "run" /\ pc \in DOMAIN Program

\* var = driver.list_xxx(...)
StepList ==
    /\ Running
    /\ LET ins == Program[pc]
       IN  /\ ins.cat = "list"
           /\ \/ /\ calls' = Append(calls, CallRec(ins.line, ins.op, ins.cat, <<>>, "raise"))
                 /\ Leave(Exc("DriverError", ins.op))
                 /\ UNCHANGED <<pc, locals>>
              \/ /\ calls' = Append(calls, CallRec(ins.line, ins.op, ins.cat, <<>>, "ok"))
                 /\ locals' = [locals EXCEPT ![ins.var] = DriverList(store, ins.kind)]
                 /\ pc' = pc + 1
                 /\ UNCHANGED <<mode, exc>>
    /\ UNCHANGED <<config, invocation, body, cu, store, out>>

\* what a successful driver call leaves in the cloud
Effect(ins, st, loc) ==
    CASE ins.op = "detach_member" -> Remove(st, {loc["members"][1]})
      [] ins.op = "attach_member" -> st \o loc["detached"]
      [] OTHER -> st \o ins.creates

\* the locals a successful driver call assigns
Assign(ins, loc) ==
    CASE ins.op = "detach_member" -> [loc EXCEPT !["detached"] = <<loc["members"][1]>>]
      [] ins.var # "" -> [loc EXCEPT ![ins.var] = ins.creates]
      [] OTHER -> loc

\* what is reported after a driver call that returned result
Says(ins, result) ==
    IF ins.title = NoTitle \/ ~result THEN <<>>
    ELSE IF ins.via = "display" THEN Display(ins.title, <<>>, TRUE).lines
    ELSE <<Line("print", "", ins.title.fmt, ins.title.arg)>>

\* a driver call that reads, creates, attaches, updates or detaches
StepDriver ==
    /\ Running
    /\ LET ins == Program[pc]
       IN  /\ ins.cat \in {"read", "create", "attach", "update", "detach"}
           /\ \/ /\ calls' = Append(calls, CallRec(ins.line, ins.op, ins.cat,
                                     NamesOf(ins.creates), "raise"))
                 /\ Leave(Exc("DriverError", ins.op))
                 /\ UNCHANGED <<pc, locals, store, out>>
              \/ \E result \in (IF ins.title = NoTitle THEN {TRUE} ELSE BOOLEAN) :
                    /\ ins.op = "detach_member" => locals["members"] # <<>>
                    /\ calls' = Append(calls, CallRec(ins.line, ins.op, ins.cat,
                                        NamesOf(ins.creates), "ok"))
                    /\ store' = Effect(ins, store, locals)
                    /\ locals' = Assign(ins, locals)
                    /\ out' = out \o Says(ins, result)
                    /\ pc' = pc + 1
                    /\ UNCHANGED <<mode, exc>>
    /\ UNCHANGED <<config, invocation, body, cu>>

\* the lines a display, print or global read writes, and what it raises
Statement(ins, loc) ==
    CASE ins.op = "display" ->
           Display(ins.title, IF ins.var = "" THEN <<>> ELSE loc[ins.var], ins.pfx)
      [] ins.op = "print" ->
           [lines |-> <<Line("print", "", ins.title.fmt, ins.title.arg)>>, exc |-> NoExc]
      [] ins.op = "print_each" ->
           [lines |-> [i \in DOMAIN loc[ins.var] |->
                         Line("print", "", ins.title.fmt, <<loc[ins.var][i].name>>)],
            exc |-> NoExc]
      [] ins.op = "ref" ->
           [lines |-> <<>>,
            exc |-> IF IsBound(ins.var, VarNames) THEN NoExc ELSE Exc("NameError", ins.var)]

\* a statement that makes no driver call
StepStatement ==
    /\ Running
    /\ LET ins == Program[pc]
       IN  /\ ins.op \in {"display", "print", "print_each", "ref"}
           /\ LET r == Statement(ins, locals)
              IN  /\ out' = out \o r.lines
                  /\ IF r.exc # NoExc
                     THEN Leave(r.exc) /\ pc' = pc
                     ELSE pc' = pc + 1 /\ UNCHANGED <<mode, exc>>
    /\ UNCHANGED <<config, invocation, body, locals, cu, store, calls>>

\* clean_up(gce, DEMO_BASE_NAME, nodes, a + b + ...)
StepCleanUp ==
    /\ Running
    /\ LET ins == Program[pc]
       IN  /\ ins.op = "clean_up"
           /\ cu' = CuFrame(DEMO_BASE_NAME,
                            IF ins.var = "" THEN None ELSE Some(locals[ins.var]),
                            Some(Concat([i \in DOMAIN ins.args |-> locals[ins.args[i]]])))
           /\ mode' = "clean_up"
    /\ UNCHANGED <<config, invocation, body, pc, locals, store, calls, out, exc>>

\* the body falls off its end
Return ==
    /\ mode = "run" /\ pc = Len(Program) + 1
    /\ mode' = "done"
    /\ UNCHANGED <<config, invocation, body, pc, locals, cu, store, calls, out, exc>>

(***************************************************************************)
(* What starts a run.                                                      *)
(***************************************************************************)
Enter(b) ==
    /\ body' = b
    /\ pc' = 1
    /\ mode' = "run"
    /\ UNCHANGED exc

\* the name read by the if statement of line 552
MainGate == "WHAT_TESTS"

\* if __name__ == '__main__':  lines 551-553 (lines 554-557 are comments)
Main ==
    /\ mode = "idle" /\ invocation.kind = "script"
    /\ IF ~IsBound(MainGate, {})
       THEN Leave(Exc("NameError", MainGate)) /\ UNCHANGED <<body, pc>>
       ELSE IF WHICH_TESTS["compute"]
            THEN Enter(Resolve("main_compute"))
            ELSE mode' = "done" /\ UNCHANGED <<body, pc, exc>>
    /\ UNCHANGED <<config, invocation, locals, cu, store, calls, out>>

\* gce_demo.<name>() from an interactive session (module header, lines 31-39)
CallByName ==
    /\ mode = "idle" /\ invocation.kind = "name"
    /\ IF Resolve(invocation.name) = "unbound"
       THEN Leave(Exc("AttributeError", invocation.name)) /\ UNCHANGED <<body, pc>>
       ELSE Enter(Resolve(invocation.name))
    /\ UNCHANGED <<config, invocation, locals, cu, store, calls, out>>

\* a call of the function object that the def statement on a line made
CallDef ==
    /\ mode = "idle" /\ invocation.kind = "def"
    /\ Enter(BodyAtLine(invocation.line))
    /\ UNCHANGED <<config, invocation, locals, cu, store, calls, out>>

\* clean_up(gce, base_name, node_list, resource_list) called on its own
CallCleanUp ==
    /\ mode = "idle" /\ invocation.kind = "clean_up"
    /\ cu' = CuFrame(invocation.base, invocation.node_list, invocation.resource_list)
    /\ mode' = "clean_up"
    /\ UNCHANGED <<config, invocation, body, pc, locals, store, calls, out, exc>>

\* display(title, resource_list, use_prefix) called on its own
CallDisplay ==
    /\ mode = "idle" /\ invocation.kind = "display"
    /\ LET r == Display(Title(invocation.name, <<>>),
                        OrEmpty(invocation.resource_list), invocation.use_prefix)
       IN  /\ out' = out \o r.lines
           /\ IF r.exc # NoExc THEN Leave(r.exc)
              ELSE mode' = "done" /\ UNCHANGED exc
    /\ UNCHANGED <<config, invocation, body, pc, locals, cu, store, calls>>

(***************************************************************************)
(* Initial states: the configuration of the module, a cloud inventory and  *)
(* one thing to run.                                                       *)
(***************************************************************************)
\* the values the module assigns (lines 68-87)
DefaultTests == [g \in Groups |-> TRUE]
DefaultMaxNodes == 5
DefaultCleanup == TRUE

\* what the catalogue listings return
Catalog == << Res("Size", <<"n1-standard-1">>), Res("Image", <<"debian-7">>),
              Res("Location", <<"us-central1-f">>), Res("Zone", <<"us-central1-f">>),
              Res("Protocol", <<"tcp">>) >>

\* resources of other owners: names that do not start with DEMO_BASE_NAME
Foreign(kind, n) == [i \in 1..n |-> Res(kind, <<"p", ToString(i)>>)]
\* left over from an earlier run of the demo
Old(kind, suffix) == Res(kind, Fmt(suffix))

\* a listing long enough that leftovers come after the slice display shows
Crowded ==
    Foreign("Node", DisplayLimit) \o <<Old("Node", "-old")>>
      \o Foreign("Address", DisplayLimit) \o <<Old("Address", "-old")>>
      \o Foreign("Firewall", DisplayLimit) \o <<Old("Firewall", "-old")>>

\* every listing the compute scenario displays starts with as many resources
\* of other owners as display shows
Packed ==
    Foreign("Node", DisplayLimit) \o Foreign("Address", DisplayLimit)
      \o Foreign("Volume", DisplayLimit) \o Foreign("Firewall", DisplayLimit)
      \o Foreign("Network", DisplayLimit) \o Foreign("Snapshot", DisplayLimit)

Inventories == { <<>>,
                 <<Res("Node", <<"p", "r", "o", "d">>), Res("Firewall", <<"x", "l", "c", "t">>)>>,
                 <<Old("Node", "-old")>>,
                 Crowded }

\* arguments of the direct calls
NodePool == {Res("Node", Fmt("-a")), Res("Node", <<"x", "l", "c", "t">>)}
ResPool == {Res("Firewall", Fmt("-a")), Res("Network", DEMO_BASE_NAME),
            Res("Address", <<"l", "c">>)}
BasePool == {DEMO_BASE_NAME, <<"l", "c">>, <<>>}
DisplayPool == {Res("Node", Fmt("-a")), Res("Node", <<"p", "r", "o", "d">>)}

SetToSeq(S) ==
    LET RECURSIVE F(_)
        F(T) == IF T = {} THEN <<>>
                ELSE LET x == CHOOSE y \in T : TRUE IN <<x>> \o F(T \ {x})
    IN  F(S)

ScenarioInvocations ==
    {Invocation("name", n, 0, <<>>, None, None, FALSE) :
        n \in {"main_compute", "main_load_balancer", "main_dns"}}
    \cup {Invocation("def", "", l, <<>>, None, None, FALSE) : l \in {193, 405, 544}}

CleanUpInvocations ==
    {Invocation("clean_up", "", 0, b, nl, rl, FALSE) :
        b \in BasePool,
        nl \in {None} \cup {Some(s) : s \in SeqsUpTo(NodePool, MaxNodeList)},
        rl \in {None} \cup {Some(s) : s \in SeqsUpTo(ResPool, MaxResList)}}

DisplayInvocations ==
    {Invocation("display", "Nodes", 0, <<>>, None, Some(s), p) :
        s \in SeqsUpTo(DisplayPool, MaxDisplayLen), p \in BOOLEAN}

Init ==
    /\ \/ /\ invocation \in ScenarioInvocations
          /\ CLEANUP \in BOOLEAN
          /\ MAX_NODES \in 1..MaxMaxNodes
          /\ WHICH_TESTS = DefaultTests
          /\ \E inv \in Inventories : store = Catalog \o inv
       \/ /\ invocation = Invocation("def", "", 193, <<>>, None, None, FALSE)
          /\ CLEANUP \in BOOLEAN
          /\ MAX_NODES \in 1..MaxPackedNodes
          /\ WHICH_TESTS = DefaultTests
          /\ store = Catalog \o Packed
       \/ /\ invocation = Invocation("script", "", 0, <<>>, None, None, FALSE)
          /\ CLEANUP = DefaultCleanup
          /\ MAX_NODES = DefaultMaxNodes
          /\ WHICH_TESTS \in [Groups -> BOOLEAN]
          /\ store = Catalog
       \/ /\ invocation \in CleanUpInvocations \cup DisplayInvocations
          /\ CLEANUP = DefaultCleanup
          /\ MAX_NODES = DefaultMaxNodes
          /\ WHICH_TESTS = DefaultTests
          /\ store = SetToSeq(NodePool \cup ResPool)
    /\ mode = "idle"
    /\ body = "none"
    /\ pc = 0
    /\ locals = NoLocals
    /\ cu = CuIdle
    /\ calls = <<>>
    /\ out = <<>>
    /\ exc = NoExc

Next ==
    \/ Main
    \/ CallByName
    \/ CallDef
    \/ CallCleanUp
    \/ CallDisplay
    \/ StepList
    \/ StepDriver
    \/ StepStatement
    \/ StepCleanUp
    \/ Return
    \/ CleanUpNodes
    \/ CleanUpResource
    \/ CleanUpReturn

Spec == Init /\ [][Next]_vars

(***************************************************************************)
(* Properties.                                                             *)
(***************************************************************************)
Last(s) == s[Len(s)]

\* the destroy() calls made since clean_up was last entered: every call of
\* clean_up makes one ex_destroy_multiple_nodes call before its loop
DestroysSince ==
    LET marks == {i \in DOMAIN calls : calls[i].op = "ex_destroy_multiple_nodes"}
        from == CHOOSE i \in marks : \A j \in marks : j <= i
    IN  IF marks = {} THEN <<>> ELSE SubSeq(calls, from + 1, Len(calls))

\* p is an initial segment of s
IsPrefix(p, s) == \E k \in 0..Len(s) : SubSeq(s, 1, k) = p

\* no driver call has raised
NoDriverError == \A i \in DOMAIN calls : calls[i].result \in {"ok"}

\* C1: clean_up passes a node to ex_destroy_multiple_nodes, and calls
\* destroy() on a resource, only if its name starts with base_name; in a
\* direct call every resource whose name does not start with base_name is
\* still in the cloud.
C1_OnlyPrefixDestroyed ==
    /\ \A i \in DOMAIN calls :
          calls[i].cat = "destroy" =>
             \A j \in DOMAIN calls[i].names : IsPrefix(cu.base, calls[i].names[j])
    /\ invocation.kind = "clean_up" =>
          \A r \in NodePool \cup ResPool :
             ~IsPrefix(invocation.base, r.name) => r \in Range(store)

\* clean_up has returned from lists that hold matching and other names, and
\* has destroyed a node and a resource
C1_Witness ==
    /\ invocation.kind = "clean_up" /\ cu.phase = "returned"
    /\ \E n \in Range(cu.node_list) : ~IsPrefix(cu.base, n.name)
    /\ \E r \in Range(cu.resource_list) : ~IsPrefix(cu.base, r.name)
    /\ \E i \in DOMAIN calls :
          calls[i].op = "ex_destroy_multiple_nodes" /\ calls[i].names # <<>>
    /\ \E i \in DOMAIN calls : calls[i].op = "destroy" /\ calls[i].result = "ok"

\* C2: a ResourceNotFoundError of destroy() never leaves clean_up: a
\* 'Not found' line is written for it and the loop goes on, so that the
\* destroy() calls made so far are exactly the matching resources among those
\* the loop has passed.
C2_NotFoundSwallowed ==
    /\ exc.type # "ResourceNotFoundError"
    /\ (mode = "clean_up" /\ cu.phase = "resources") =>
          LET done == DestroysSince
              passed == SubSeq(cu.resource_list, 1, cu.i - 1)
              due == SelectSeq(passed, LAMBDA r : IsPrefix(cu.base, r.name))
          IN  /\ [k \in DOMAIN done |-> done[k].names] = [k \in DOMAIN due |-> <<due[k].name>>]
              /\ \A k \in DOMAIN done :
                    done[k].result = "ResourceNotFoundError" =>
                       Line("title", "=> ", "   Not found: %s(%s)",
                            <<due[k].name, <<due[k].kind>>>>) \in Range(out)

\* destroy() was called on a later resource after one raised
\* ResourceNotFoundError
C2_Witness ==
    /\ mode = "clean_up" /\ cu.phase = "resources"
    /\ \E k \in DOMAIN DestroysSince :
          /\ k < Len(DestroysSince)
          /\ DestroysSince[k].result = "ResourceNotFoundError"

\* C3: when destroy() raises anything but ResourceNotFoundError, clean_up
\* writes a 'Failed to Delete' line and the exception ends the run: the
\* failed call is the last driver call and the line is the last output.
C3_OtherErrorAborts ==
    \A i \in DOMAIN calls :
       (calls[i].op = "destroy" /\ calls[i].result = "DriverError") =>
          /\ i = Len(calls)
          /\ mode = "raised"
          /\ exc = Exc("DriverError", "destroy")
          /\ out # <<>>
          /\ Last(out).fmt = "   Failed to Delete %s(%s)"
          /\ Last(out).arg[1] = calls[i].names[1]
          /\ cu.resource_list[cu.i].name = calls[i].names[1]

\* a scenario's clean_up was aborted with a matching resource still to come
C3_Witness ==
    /\ invocation.kind \in {"name", "def"}
    /\ calls # <<>>
    /\ Last(calls).op = "destroy" /\ Last(calls).result = "DriverError"
    /\ \E j \in DOMAIN cu.resource_list :
          j > cu.i /\ IsPrefix(cu.base, cu.resource_list[j].name)

\* the scenario run has ended, by returning or by an exception
Ended == mode \in {"done", "raised"}

\* C4: in the compute and the load-balancer scenario, whatever the driver
\* lists and whatever CLEANUP is, the initial clean_up is reached, and every
\* listed resource whose name starts with DEMO_BASE_NAME has been submitted
\* for destruction when the first resource is created.
C4_InitialCleanupReached ==
    (body \in {"compute", "load_balancer"} /\ NoDriverError) =>
       /\ Ended => \E i \in DOMAIN calls : calls[i].op = "ex_destroy_multiple_nodes"
       /\ (calls # <<>> /\ Last(calls).cat = "create"
             /\ \A i \in 1..(Len(calls) - 1) : calls[i].cat # "create") =>
             \A r \in Range(cu.node_list) \cup Range(cu.resource_list) :
                IsPrefix(DEMO_BASE_NAME, r.name) =>
                   \E j \in DOMAIN calls :
                      calls[j].cat = "destroy" /\ r.name \in Range(calls[j].names)

\* C5: with CLEANUP set and no driver error, the compute and the
\* load-balancer scenario return, and every resource they created has been
\* submitted for destruction afterwards.  (Stated for the runs that got past
\* their initial clean_up.)
C5_FinalCleanupReached ==
    (/\ body \in {"compute", "load_balancer"} /\ CLEANUP /\ Ended /\ NoDriverError
     /\ \E i \in DOMAIN calls : calls[i].op = "ex_destroy_multiple_nodes") =>
       /\ mode = "done"
       /\ \A i \in DOMAIN calls :
             calls[i].cat = "create" =>
                \A n \in Range(calls[i].names) :
                   \E j \in DOMAIN calls :
                      j > i /\ calls[j].cat = "destroy" /\ n \in Range(calls[j].names)

\* the nodes the scenario has created that are still in the cloud
LiveCreatedNodes ==
    {r \in Range(store) :
        /\ r.kind = "Node"
        /\ \E i \in DOMAIN calls :
              /\ calls[i].cat = "create" /\ calls[i].result = "ok"
              /\ r.name \in Range(calls[i].names)}

\* C6: at every point of the compute scenario the number of nodes it has
\* created and not destroyed is at most MAX_NODES.
C6_AtMostMaxNodes ==
    body = "compute" => Cardinality(LiveCreatedNodes) <= MAX_NODES

GroupOf(b) ==
    CASE b = "compute" -> "compute"
      [] b = "load_balancer" -> "load-balancer"
      [] b = "dns" -> "dns"
      [] OTHER -> "none"

\* C7: run as the main program, the script ends without an error of its own
\* and has run a scenario group if and only if its entry in WHICH_TESTS is
\* true.
C7_EntryGated ==
    (invocation.kind = "script" /\ Ended) =>
       /\ exc # Exc("NameError", MainGate)
       /\ \A g \in Groups : WHICH_TESTS[g] <=> GroupOf(body) = g

\* the scenario the module header documents under a name (lines 36-38)
Documented(name) ==
    CASE name = "main_compute" -> "compute"
      [] name = "main_load_balancer" -> "load_balancer"
      [] name = "main_dns" -> "dns"

\* C8: each of main_compute, main_load_balancer and main_dns is bound, and a
\* call by that name runs the scenario documented for it and no other.
C8_ScenariosByName ==
    (invocation.kind = "name" /\ mode # "idle") =>
       /\ exc.type # "AttributeError"
       /\ body = Documented(invocation.name)

\* C9: when a create, attach or update call of the driver raises, the
\* exception ends the scenario: the failed call is the last driver call (it
\* is not repeated and no destroy or detach follows) and everything created
\* before it is still in the cloud.
C9_NoRetryNoRollback ==
    \A i \in DOMAIN calls :
       (calls[i].result = "raise" /\ calls[i].cat \in {"create", "attach", "update"}) =>
          /\ i = Len(calls)
          /\ mode = "raised"
          /\ exc = Exc("DriverError", calls[i].op)
          /\ \A j \in 1..(i - 1) :
                calls[j].cat = "create" =>
                   \A n \in Range(calls[j].names) : \E r \in Range(store) : r.name = n

\* the attach of the new disk raised after nodes and the disk were created
C9_Witness ==
    /\ body = "compute" /\ mode = "raised"
    /\ calls # <<>>
    /\ Last(calls).cat = "attach" /\ Last(calls).result = "raise"
    /\ \E j \in DOMAIN calls : calls[j].cat = "create" /\ calls[j].result = "ok"
    /\ \E r \in Range(store) : r = Res("Volume", Fmt("-attach-disk"))

Min(a, b) == IF a < b THEN a ELSE b

\* C10: display returns without error after printing the title line and one
\* line for each of the first min(10, len(resource_list)) items, an item's
\* line having the prefix '=> ' only if use_prefix is true and its name
\* begins with DEMO_BASE_NAME.
C10_DisplayTruncates ==
    (invocation.kind = "display" /\ mode # "idle") =>
       LET rl == OrEmpty(invocation.resource_list)
           n == Min(10, Len(rl))
       IN  /\ mode = "done"
           /\ exc = NoExc
           /\ Len(out) = 1 + n
           /\ out[1].k = "title" /\ out[1].fmt = invocation.name
           /\ \A i \in 1..n :
                 /\ out[i + 1].k = "item"
                 /\ out[i + 1].arg = <<rl[i].name>>
                 /\ out[i + 1].pre = "=> " =>
                       (invocation.use_prefix /\ IsPrefix(DEMO_BASE_NAME, rl[i].name))

\* the index of the first call of a driver operation, 0 if it was not called
FirstCall(op) ==
    LET idx == {i \in DOMAIN calls : calls[i].op = op}
    IN  IF idx = {} THEN 0 ELSE CHOOSE i \in idx : \A j \in idx : i <= j

\* the members of the balancer, attach and detach taken as set insertion
\* and removal
BalancerMembers == {r \in Range(store) : r.kind = "Member"}

\* C11: with no driver error the load-balancer scenario creates the three
\* nodes, the firewall and the health check, then the balancer with the first
\* two nodes as members, attaches the third node, detaches a listed member
\* and attaches the same member again; the balancer has two members right
\* after the detach and the three created nodes as members after the
\* re-attach.
C11_BalancerOrder ==
    (body = "load_balancer" /\ NoDriverError) =>
       /\ Ended =>
             /\ 0 < FirstCall("ex_create_multiple_nodes")
             /\ FirstCall("ex_create_multiple_nodes") < FirstCall("create_balancer")
             /\ 0 < FirstCall("ex_create_firewall")
             /\ FirstCall("ex_create_firewall") < FirstCall("create_balancer")
             /\ 0 < FirstCall("ex_create_healthcheck")
             /\ FirstCall("ex_create_healthcheck") < FirstCall("create_balancer")
             /\ FirstCall("create_balancer") < FirstCall("attach_compute_node")
             /\ FirstCall("attach_compute_node") < FirstCall("detach_member")
             /\ FirstCall("detach_member") < FirstCall("attach_member")
             /\ BalancerMembers = {MemberOf(WwwNodes[i]) : i \in 1..3}
       /\ (calls # <<>> /\ Last(calls).op = "create_balancer") =>
             BalancerMembers = {MemberOf(WwwNodes[1]), MemberOf(WwwNodes[2])}
       /\ (calls # <<>> /\ Last(calls).op = "detach_member") =>
             /\ Cardinality(BalancerMembers) = 2
             /\ locals["detached"] # <<>>
             /\ locals["detached"][1] \notin BalancerMembers
       /\ (calls # <<>> /\ Last(calls).op = "attach_member") =>
             /\ locals["detached"][1] \in BalancerMembers
             /\ BalancerMembers = {MemberOf(WwwNodes[i]) : i \in 1..3}

\* the matching resources the loop of the current clean_up has gone past
Processed ==
    SelectSeq(SubSeq(cu.resource_list, 1, cu.i - 1),
              LAMBDA r : IsPrefix(cu.base, r.name))

\* the names of the volumes the scenario has created
CreatedVolumeNames ==
    UNION {Range(calls[i].names) :
              i \in {j \in DOMAIN calls : calls[j].op = "create_volume"}}

\* C12: every clean_up call hands all its matching nodes to
\* ex_destroy_multiple_nodes before it calls destroy() on any resource; in a
\* scenario's clean_up no network is destroyed before a firewall; and in the
\* final cleanup of the compute scenario a volume is destroyed only after
\* every node, address, firewall, network and snapshot the scenario created
\* has been submitted for destruction.
C12_CleanupOrder ==
    /\ \A i \in DOMAIN calls :
          calls[i].op = "destroy" =>
             /\ i > 1
             /\ calls[i - 1].op \in {"ex_destroy_multiple_nodes", "destroy"}
             /\ calls[i - 1].result # "raise"
    /\ cu.phase \in {"resources", "returned"} =>
          LET marks == {i \in DOMAIN calls : calls[i].op = "ex_destroy_multiple_nodes"}
              due == SelectSeq(cu.node_list, LAMBDA n : IsPrefix(cu.base, n.name))
          IN  /\ marks # {}
              /\ calls[CHOOSE i \in marks : \A j \in marks : j <= i].names
                    = [k \in DOMAIN due |-> due[k].name]
    /\ (body # "none" /\ cu.phase \in {"resources", "returned"}) =>
          LET done == DestroysSince
              passed == Processed
          IN  /\ mode = "clean_up" =>
                    [k \in DOMAIN done |-> done[k].names]
                       = [k \in DOMAIN passed |-> <<passed[k].name>>]
              /\ \A k1, k2 \in DOMAIN passed :
                    k1 < k2 => ~(passed[k1].kind = "Network" /\ passed[k2].kind = "Firewall")
    /\ body = "compute" =>
          LET first == FirstCall("create_volume")
              vols == CreatedVolumeNames
          IN  first > 0 =>
                 \A i \in (first + 1)..Len(calls) :
                    (calls[i].op = "destroy" /\ calls[i].names[1] \in vols) =>
                       \A c \in 1..(i - 1) :
                          (calls[c].cat = "create" /\ calls[c].op # "create_volume") =>
                             \A n \in Range(calls[c].names) :
                                \E j \in (c + 1)..(i - 1) :
                                   calls[j].cat = "destroy" /\ n \in Range(calls[j].names)

\* the compute scenario has returned from its final cleanup: it handed its
\* nodes to ex_destroy_multiple_nodes, destroyed its firewall, then its
\* network, and after them a volume
C12_Witness ==
    /\ body = "compute" /\ mode = "done" /\ CLEANUP
    /\ \E n, f, w, v \in DOMAIN calls :
          /\ n < f /\ f < w /\ w < v
          /\ calls[n].op = "ex_destroy_multiple_nodes"
          /\ Fmt("-persist-node") \in Range(calls[n].names)
          /\ calls[f].op = "destroy" /\ calls[f].names = <<Fmt("-firewall")>>
          /\ calls[w].op = "destroy" /\ calls[w].names = <<Fmt("-network")>>
          /\ calls[v].op = "destroy" /\ calls[v].names = <<Fmt("-boot-disk")>>

====
